---- MODULE Spec2Model ----
(***************************************************************************)
(* Model of src/sqlite_to_orm.py: convert_sqlite_to_orm translates a       *)
(* parsed sequence of CREATE TABLE / CREATE INDEX statements into the text *)
(* of an ORM schema.  The parsed statements (the value sqlglot.parse       *)
(* returns) are the input; one run of the function is the state machine    *)
(* start -> indexes -> tables (constraints, table args, columns per table) *)
(* -> done, or error when a check raises.  Text is modelled as TLA+        *)
(* strings, built with \o exactly as the f-strings of the code build it;   *)
(* text whose characters the code inspects (table names, type arguments)   *)
(* is a sequence of one-character strings.                                 *)
(***************************************************************************)
EXTENDS Integers, Sequences, FiniteSets, TLC

VARIABLES expressions, pc, err, i, t, c, k, table_indexes, primary_key,
          table_args, lines, output, writes, run, how, first

vars == <<expressions, pc, err, i, t, c, k, table_indexes, primary_key,
          table_args, lines, output, writes, run, how, first>>

(***************************************************************************)
(* Bounds of the input families.                                           *)
(***************************************************************************)
MaxStmts == 3
MaxSubs == 2
MaxArgs == 3
MaxOpts == 2

MAX_LINE_LENGTH == 100

(***************************************************************************)
(* Text helpers.                                                           *)
(***************************************************************************)
RECURSIVE Str(_)
Str(s) == IF s = <<>> THEN "" ELSE s[1] \o Str(Tail(s))

RECURSIVE Join(_, _)
Join(sep, strs) ==
    IF strs = <<>> THEN ""
    ELSE IF Len(strs) = 1 THEN strs[1]
    ELSE strs[1] \o sep \o Join(sep, Tail(strs))

Quote(s) == "\"" \o s \o "\""

QuoteAll(strs) == [j \in 1..Len(strs) |-> Quote(strs[j])]

Lowers == <<"a","b","c","d","e","f","g","h","i","j","k","l","m",
            "n","o","p","q","r","s","t","u","v","w","x","y","z">>
Uppers == <<"A","B","C","D","E","F","G","H","I","J","K","L","M",
            "N","O","P","Q","R","S","T","U","V","W","X","Y","Z">>
Digits == {"0","1","2","3","4","5","6","7","8","9"}

Upper(ch) == IF \E j \in 1..26 : Lowers[j] = ch
             THEN Uppers[CHOOSE j \in 1..26 : Lowers[j] = ch] ELSE ch
Lower(ch) == IF \E j \in 1..26 : Uppers[j] = ch
             THEN Lowers[CHOOSE j \in 1..26 : Uppers[j] = ch] ELSE ch

\* str.isdigit(): non-empty and every character a digit
IsDigit(s) == Len(s) > 0 /\ \A j \in 1..Len(s) : s[j] \in Digits

\* str.startswith(prefix)
StartsWith(s, prefix) ==
    Len(s) >= Len(prefix) /\ SubSeq(s, 1, Len(prefix)) = prefix

\* str.split("_")
RECURSIVE Split(_)
Split(s) ==
    IF \E j \in 1..Len(s) : s[j] = "_"
    THEN LET p == CHOOSE j \in 1..Len(s) :
                     s[j] = "_" /\ \A m \in 1..(j-1) : s[m] # "_"
         IN  <<SubSeq(s, 1, p - 1)>> \o Split(SubSeq(s, p + 1, Len(s)))
    ELSE <<s>>

\* str.capitalize()
Capitalize(w) ==
    IF w = <<>> THEN <<>>
    ELSE <<Upper(w[1])>> \o [j \in 1..(Len(w) - 1) |-> Lower(w[j + 1])]

RECURSIVE Concat(_)
Concat(ws) == IF ws = <<>> THEN <<>> ELSE ws[1] \o Concat(Tail(ws))

ClassName(table) ==
    Str(Concat([j \in 1..Len(Split(table)) |-> Capitalize(Split(table)[j])]))

ReservedPrefix == <<"s","q","l","i","t","e","_">>

(***************************************************************************)
(* The fixed preamble (lines 72-101).                                      *)
(***************************************************************************)
Version == "1.0.35"

header ==
    "\"\"\"ORM schema.\"\"\"\n" \o
    "# ruff: noqa: E501\n" \o
    "\n" \o
    "from __future__ import annotations\n" \o
    "\n" \o
    "from datetime import datetime  # noqa: TC003\n" \o
    "\n" \o
    "from sqlalchemy import (\n" \o
    "    BigInteger,\n" \o
    "    CheckConstraint,\n" \o
    "    ForeignKeyConstraint,\n" \o
    "    Index,\n" \o
    "    Numeric,\n" \o
    "    PrimaryKeyConstraint,\n" \o
    "    SmallInteger,\n" \o
    "    String,\n" \o
    "    Text,\n" \o
    "    UniqueConstraint,\n" \o
    ")\n" \o
    "from sqlalchemy.orm import DeclarativeBase, Mapped, mapped_column\n" \o
    "\n" \o
    "__version__ = \"" \o Version \o "\"\n" \o
    "\n" \o
    "\n" \o
    "class Base(DeclarativeBase):\n" \o
    "    \"\"\"ORM base class.\"\"\"\n" \o
    "\n" \o
    "\n"

(***************************************************************************)
(* Type mapper (lines 32-63).  A result is [err, python, alchemy]; err is  *)
(* the message of the exception raised ("" when none).  Messages that end  *)
(* in the repr of a syntax-tree node are kept up to that repr.             *)
(***************************************************************************)
Ok(python, alchemy) == [err |-> "", python |-> python, alchemy |-> alchemy]
Raise(msg) == [err |-> msg, python |-> "", alchemy |-> ""]

parse_varchar(kind) ==
    IF Len(kind.expressions) # 1 THEN Raise("Invalid varchar args")
    ELSE LET length == kind.expressions[1]
         IN  IF ~IsDigit(length) THEN Raise("Invalid varchar args")
             ELSE Ok("str", "String(" \o Str(length) \o ")")

\* variant of parse_decimal that takes the first two of any two or more arguments
parse_decimal_no_arity(kind) ==
    IF kind.expressions = <<>> THEN Ok("float", "")
    ELSE IF Len(kind.expressions) < 2 THEN Raise("Invalid decimal args")
    ELSE LET prec == kind.expressions[1]
             scale == kind.expressions[2]
         IN  IF ~IsDigit(prec) \/ ~IsDigit(scale)
             THEN Raise("Invalid decimal args")
             ELSE Ok("float", "Numeric(" \o Str(prec) \o ", " \o Str(scale) \o ")")

parse_decimal(kind) ==
    IF kind.expressions = <<>> THEN Ok("float", "")
    ELSE IF Len(kind.expressions) # 2 THEN Raise("Invalid decimal args")
    ELSE LET prec == kind.expressions[1]
             scale == kind.expressions[2]
         IN  IF ~IsDigit(prec) \/ ~IsDigit(scale)
             THEN Raise("Invalid decimal args")
             ELSE Ok("float", "Numeric(" \o Str(prec) \o ", " \o Str(scale) \o ")")

Callables == {"VARCHAR", "DECIMAL"}
SimpleTypes == {"TEXT", "SMALLINT", "BIGINT", "INT", "DATETIME"}

SQL_TYPE_MAP(tag) ==
    CASE tag = "TEXT" -> <<"str", "Text()">>
      [] tag = "SMALLINT" -> <<"int", "SmallInteger()">>
      [] tag = "BIGINT" -> <<"int", "BigInteger()">>
      [] tag = "INT" -> <<"int", "">>
      [] tag = "DATETIME" -> <<"datetime", "">>

\* lines 187-195
MapType(kind) ==
    IF kind.this \notin Callables \cup SimpleTypes
    THEN Raise("Unknown column type")
    ELSE IF kind.this = "VARCHAR" THEN parse_varchar(kind)
    ELSE IF kind.this = "DECIMAL" THEN parse_decimal(kind)
    ELSE IF kind.expressions # <<>>
         THEN Raise("Simple mapping types should not have expressions")
         ELSE Ok(SQL_TYPE_MAP(kind.this)[1], SQL_TYPE_MAP(kind.this)[2])

\* lines 196-201: [err, can_be_null] of the loop over col.constraints
RECURSIVE ColumnConstraints(_)
ColumnConstraints(cs) ==
    IF cs = <<>> THEN [err |-> "", can_be_null |-> TRUE]
    ELSE IF cs[1] = "NotNull"
         THEN LET rest == ColumnConstraints(Tail(cs))
              IN  [err |-> rest.err, can_be_null |-> FALSE]
         ELSE [err |-> "Unknown column constraint type", can_be_null |-> FALSE]

\* variant of optional_suffix that does not look at the primary key
optional_suffix_ignoring_pk(can_be_null, col_name, pk) ==
    IF can_be_null THEN " | None" ELSE ""

\* line 206
optional_suffix(can_be_null, col_name, pk) ==
    IF can_be_null /\ ~(\E j \in 1..Len(pk) : pk[j] = col_name)
    THEN " | None" ELSE ""

\* lines 203-208
FieldLine(col_name, map_python, suffix, map_alchemy) ==
    "    " \o col_name \o ": Mapped[" \o map_python \o suffix \o "]" \o
    (IF map_alchemy # "" THEN " = mapped_column(" \o map_alchemy \o ")" ELSE "")

\* lines 185-208, one iteration: [err, line]
ColumnResult(col, pk) ==
    LET ty == MapType(col.kind)
        cc == ColumnConstraints(col.constraints)
    IN  IF ty.err # "" THEN [err |-> ty.err, line |-> ""]
        ELSE IF cc.err # "" THEN [err |-> cc.err, line |-> ""]
        ELSE [err |-> "",
              line |-> FieldLine(col.name, ty.python,
                                 optional_suffix(cc.can_be_null, col.name, pk),
                                 ty.alchemy)]

(***************************************************************************)
(* Constraint normaliser (lines 138-174) and index rendering (112-120).    *)
(***************************************************************************)
PrimaryKeyDecl(pk, name) ==
    "PrimaryKeyConstraint(" \o Join(", ", QuoteAll(pk)) \o
    ", name=" \o Quote(name) \o ")"

UniqueDecl(cols, name) ==
    "UniqueConstraint(" \o Join(", ", QuoteAll(cols)) \o
    ", name=" \o Quote(name) \o ")"

CheckDecl(text, name) ==
    "CheckConstraint(" \o Quote(text) \o ", name=" \o Quote(name) \o ")"

CascadeModifier == ", ondelete=\"CASCADE\""

\* variant of option_str that drops an unknown option
RECURSIVE option_str_dropping(_)
option_str_dropping(opts) ==
    IF opts = <<>> THEN [err |-> "", str |-> ""]
    ELSE LET rest == option_str_dropping(Tail(opts))
         IN  IF opts[1] = "ON DELETE CASCADE"
             THEN [err |-> "", str |-> CascadeModifier \o rest.str]
             ELSE rest

\* lines 164-169: [err, str] of the loop over the reference options
RECURSIVE option_str(_)
option_str(opts) ==
    IF opts = <<>> THEN [err |-> "", str |-> ""]
    ELSE IF opts[1] = "ON DELETE CASCADE"
         THEN LET rest == option_str(Tail(opts))
              IN  [err |-> rest.err, str |-> CascadeModifier \o rest.str]
         ELSE [err |-> "Unknown option " \o opts[1], str |-> ""]

ForeignKeyDecl(cols, ref_table, ref_cols, name, opt) ==
    "ForeignKeyConstraint([" \o Join(", ", QuoteAll(cols)) \o "], [" \o
    Join(", ", [j \in 1..Len(ref_cols) |-> Quote(ref_table \o "." \o ref_cols[j])]) \o
    "], name=" \o Quote(name) \o opt \o ")"

IndexDecl(ix) ==
    "Index(" \o Quote(ix.name) \o ", " \o Join(", ", QuoteAll(ix.columns)) \o
    (IF ix.unique THEN ", unique=True" ELSE "") \o ")"

\* lines 139-174, one iteration: [err, primary_key, table_args]
ConstraintResult(const, pk, args) ==
    LET fail(msg) == [err |-> msg, primary_key |-> pk, table_args |-> args]
        keep(decl) == [err |-> "", primary_key |-> pk,
                       table_args |-> Append(args, decl)]
    IN  IF Len(const.expressions) # 1
        THEN fail("Invalid constraint definition: only single expression allowed")
        ELSE LET this == const.expressions[1]
                 name == const.this
             IN  CASE this.type = "PrimaryKey" ->
                        IF pk # <<>> THEN fail("Multiple primary keys found")
                        ELSE [err |-> "", primary_key |-> pk \o this.cols,
                              table_args |->
                                  Append(args, PrimaryKeyDecl(pk \o this.cols, name))]
                   [] this.type = "Unique" -> keep(UniqueDecl(this.cols, name))
                   [] this.type = "Check" -> keep(CheckDecl(this.text, name))
                   [] this.type = "ForeignKey" ->
                        LET o == option_str(this.options)
                        IN  IF o.err # "" THEN fail(o.err)
                            ELSE keep(ForeignKeyDecl(this.cols, this.ref_table,
                                                     this.ref_cols, name, o.str))
                   [] OTHER -> fail("Unknown constraint")

\* lines 178-183: the lines the table-level declarations are rendered as
TableArgsLines(args) ==
    IF Len(Join(", ", args)) + 23 > MAX_LINE_LENGTH
    THEN <<"    __table_args__ = (">> \o
         [j \in 1..Len(args) |-> "        " \o args[j] \o ","] \o
         <<"    )">>
    ELSE IF args # <<>>
         THEN <<"    __table_args__ = (" \o Join(", ", args) \o ",)">>
         ELSE <<>>

\* lines 126-130
ClassHeaderLines(table) ==
    << "class " \o ClassName(table) \o "(Base):",
       "    \"\"\"ORM class for " \o Str(table) \o ".\"\"\"",
       "",
       "    __tablename__ = " \o Quote(Str(table)) >>

\* variant of IsReserved that skips no table
IsReservedNever(table) == FALSE

\* line 124
IsReserved(table) == StartsWith(table, ReservedPrefix)

\* line 107
Indexes(exprs) == SelectSeq(exprs, LAMBDA e : e.kind = "INDEX")

\* variant of Tables that keeps one statement per table name
RECURSIVE TablesOnePerName(_)
TablesOnePerName(exprs) ==
    IF exprs = <<>> THEN <<>>
    ELSE LET e == exprs[Len(exprs)]
             front == SubSeq(exprs, 1, Len(exprs) - 1)
             rest == TablesOnePerName(front)
         IN  IF e.kind = "TABLE" /\
                ~(\E j \in 1..Len(rest) : rest[j].name = e.name)
             THEN Append(rest, e) ELSE rest

\* line 108
Tables(exprs) == SelectSeq(exprs, LAMBDA e : e.kind = "TABLE")

\* find_all(Constraint) / find_all(ColumnDef) over a table's sub-nodes
Constraints(tbl) == SelectSeq(tbl.expressions, LAMBDA n : n.node = "Constraint")
Columns(tbl) == SelectSeq(tbl.expressions, LAMBDA n : n.node = "ColumnDef")

\* line 176: table_indexes.get(table, [])
TableIndexesGet(ti, table) == IF table \in DOMAIN ti THEN ti[table] ELSE <<>>

\* variant of TableIndexesAppend that replaces the list
TableIndexesOverwrite(ti, table, index) ==
    [n \in DOMAIN ti \cup {table} |-> IF n = table THEN <<index>> ELSE ti[n]]

\* line 120: table_indexes.setdefault(table, []).append(index)
TableIndexesAppend(ti, table, index) ==
    [n \in DOMAIN ti \cup {table} |->
        IF n = table THEN Append(TableIndexesGet(ti, table), index) ELSE ti[n]]

EmptyDict == [n \in {} |-> <<>>]

(***************************************************************************)
(* The parsed input: what sqlglot.parse hands to the translator.           *)
(***************************************************************************)
ColumnDef(name, tag, args, cons) ==
    [node |-> "ColumnDef", name |-> name,
     kind |-> [this |-> tag, expressions |-> args], constraints |-> cons]
Constraint(name, exprs) == [node |-> "Constraint", this |-> name, expressions |-> exprs]
PrimaryKey(cols) == [type |-> "PrimaryKey", cols |-> cols]
UniqueColumnConstraint(cols) == [type |-> "Unique", cols |-> cols]
CheckColumnConstraint(text) == [type |-> "Check", text |-> text]
ForeignKey(cols, ref_table, ref_cols, options) ==
    [type |-> "ForeignKey", cols |-> cols, ref_table |-> ref_table,
     ref_cols |-> ref_cols, options |-> options]
\* a constraint body of a kind the translator does not know
ExcludeConstraint == [type |-> "Exclude"]
\* a table sub-node that is neither a column nor a named constraint
BareNode == [node |-> "PrimaryKey"]

CreateTable(name, subs) ==
    [create |-> TRUE, kind |-> "TABLE", name |-> name, expressions |-> subs]
CreateIndex(name, table, cols, unique) ==
    [create |-> TRUE, kind |-> "INDEX", name |-> name, table |-> table,
     columns |-> cols, unique |-> unique]
CreateView == [create |-> TRUE, kind |-> "VIEW"]
InsertStmt == [create |-> FALSE, kind |-> "INSERT"]

users == <<"u","s","e","r","s">>
user_roles == <<"u","s","e","r","_","r","o","l","e","s">>
sqlite_seq == <<"s","q","l","i","t","e","_","s","e","q">>
events == <<"e","v","e","n","t","s">>
sqlite == <<"s","q","l","i","t","e">>

SeqsUpTo(S, n) == UNION {[1..m -> S] : m \in 0..n}

\* Family 1: statement sequences over a small library of statements
StmtLib ==
    { CreateTable(users, << ColumnDef("id", "INT", <<>>, <<>>),
                            ColumnDef("name", "VARCHAR", << <<"5","0">> >>, <<"NotNull">>),
                            Constraint("pk_users", <<PrimaryKey(<<"id">>)>>) >>),
      CreateTable(user_roles, << ColumnDef("id", "INT", <<>>, <<>>),
                                 ColumnDef("role", "TEXT", <<>>, <<"NotNull">>),
                                 Constraint("pk_user_roles", <<PrimaryKey(<<"role">>)>>) >>),
      CreateTable(sqlite_seq, << ColumnDef("seq", "BLOB", <<>>, <<"Unique">>),
                                 BareNode,
                                 Constraint("pk1", <<PrimaryKey(<<"seq">>)>>),
                                 Constraint("pk2", <<PrimaryKey(<<"seq">>)>>),
                                 Constraint("ex", <<ExcludeConstraint>>) >>),
      CreateTable(events, << ColumnDef("payload", "BLOB", <<>>, <<>>) >>),
      CreateTable(sqlite, << ColumnDef("id", "BIGINT", <<>>, <<"NotNull">>) >>),
      CreateIndex("ix_users_name", users, <<"name">>, TRUE),
      CreateIndex("ix_users_id", users, <<"id", "name">>, FALSE),
      CreateIndex("ix_seq", sqlite_seq, <<"seq">>, FALSE),
      CreateView,
      InsertStmt }

SeqInputs == SeqsUpTo(StmtLib, MaxStmts)

\* Family 2: one table with every sequence of sub-nodes, with or without an index
SubNodes ==
    { ColumnDef("id", "INT", <<>>, <<>>),
      ColumnDef("id", "INT", <<>>, <<"NotNull">>),
      ColumnDef("a", "TEXT", <<>>, <<>>),
      ColumnDef("a", "INT", <<>>, <<"Unique">>),
      Constraint("pk", <<PrimaryKey(<<>>)>>),
      Constraint("pk", <<PrimaryKey(<<"id">>)>>),
      Constraint("pk", <<PrimaryKey(<<"id", "a">>)>>),
      Constraint("uq", <<UniqueColumnConstraint(<<"a">>)>>),
      Constraint("ck", <<CheckColumnConstraint("a >= 10")>>),
      Constraint("ck", <<CheckColumnConstraint("a >= 100")>>),
      Constraint("ck", <<CheckColumnConstraint("a >= 1000")>>),
      Constraint("fk", <<ForeignKey(<<"a">>, "users", <<"id">>, <<>>)>>),
      Constraint("fk", <<ForeignKey(<<"a">>, "users", <<"id">>, <<"ON DELETE CASCADE">>)>>),
      Constraint("none", <<>>),
      Constraint("two", <<PrimaryKey(<<"id">>), UniqueColumnConstraint(<<"a">>)>>),
      Constraint("ex", <<ExcludeConstraint>>),
      BareNode }

TableInputs ==
    UNION { { <<CreateTable(users, subs)>>,
              <<CreateTable(users, subs), CreateIndex("ix", users, <<"a">>, FALSE)>> }
            : subs \in SeqsUpTo(SubNodes, MaxSubs) }

\* Family 3: one column of every type tag with every argument list
TypeTags == {"VARCHAR", "TEXT", "SMALLINT", "BIGINT", "INT", "DECIMAL", "DATETIME", "BLOB"}
TypeArgs == { <<"1","0">>, <<"2">>, <<"M","A","X">> }

TypeInputs ==
    { <<CreateTable(users, <<ColumnDef("a", tag, args, cons)>>)>>
      : tag \in TypeTags, args \in SeqsUpTo(TypeArgs, MaxArgs),
        cons \in {<<>>, <<"NotNull">>} }

\* Family 4: one foreign key with every list of reference options
RefOptions == {"ON DELETE CASCADE", "ON UPDATE CASCADE", "ON DELETE SET NULL"}

OptInputs ==
    { <<CreateTable(user_roles,
          << ColumnDef("id", "INT", <<>>, <<>>),
             Constraint("pk", <<PrimaryKey(<<"id">>)>>),
             Constraint("fk", <<ForeignKey(<<"id">>, "users", <<"id">>, opts)>>),
             Constraint("uq", <<UniqueColumnConstraint(<<"id">>)>>) >>)>>
      : opts \in SeqsUpTo(RefOptions, MaxOpts) }

Inputs == SeqInputs \cup TableInputs \cup TypeInputs \cup OptInputs

(***************************************************************************)
(* The run.                                                                *)
(***************************************************************************)
NotWritten == [written |-> FALSE, text |-> ""]

Init ==
    /\ expressions \in Inputs
    /\ pc = "start" /\ err = ""
    /\ i = 1 /\ t = 1 /\ c = 1 /\ k = 1
    /\ table_indexes = EmptyDict
    /\ primary_key = <<>> /\ table_args = <<>>
    /\ lines = <<>>
    /\ output = NotWritten /\ writes = 0
    /\ run = 1 /\ how = "none" /\ first = [err |-> "", output |-> NotWritten]

\* an exception propagates: nothing after the raise runs
RaiseError(msg) == pc' = "error" /\ err' = msg

\* lines 68-105
Validate ==
    /\ pc = "start"
    /\ IF \E j \in 1..Len(expressions) : ~expressions[j].create
       THEN RaiseError("Input file must contain only CREATE TABLE statements.")
       ELSE IF \E j \in 1..Len(expressions) : expressions[j].kind \notin {"TABLE", "INDEX"}
       THEN RaiseError("Input file must contain only CREATE TABLE and CREATE INDEX statements.")
       ELSE /\ pc' = IF Indexes(expressions) = <<>> THEN "tables" ELSE "indexes"
            /\ err' = err
    /\ UNCHANGED <<expressions, i, t, c, k, table_indexes, primary_key,
                   table_args, lines, output, writes, run, how, first>>

\* lines 112-120, one iteration
IndexStep ==
    /\ pc = "indexes"
    /\ i <= Len(Indexes(expressions))
    /\ LET expr == Indexes(expressions)[i]
       IN  table_indexes' = TableIndexesAppend(table_indexes, expr.table, IndexDecl(expr))
    /\ i' = i + 1
    /\ pc' = IF i + 1 > Len(Indexes(expressions)) THEN "tables" ELSE "indexes"
    /\ UNCHANGED <<expressions, err, t, c, k, primary_key, table_args, lines,
                   output, writes, run, how, first>>

\* variant of FreshList that keeps the previous table's list
StaleList(old) == old

\* lines 135-136: the lists a table's emission starts with
FreshList(old) == <<>>

\* lines 122-125: a table with the reserved prefix is skipped
SkipTable ==
    /\ pc = "tables"
    /\ t <= Len(Tables(expressions))
    /\ IsReserved(Tables(expressions)[t].name)
    /\ t' = t + 1
    /\ UNCHANGED <<expressions, pc, err, i, c, k, table_indexes, primary_key,
                   table_args, lines, output, writes, run, how, first>>

\* lines 122-136: the head of a retained table's block.  expr.expressions
\* (line 132) is read as the table's ordered list of sub-nodes.
TableBegin ==
    /\ pc = "tables"
    /\ t <= Len(Tables(expressions))
    /\ LET expr == Tables(expressions)[t]
       IN  /\ ~IsReserved(expr.name)
           /\ lines' = lines \o ClassHeaderLines(expr.name)
           /\ IF \E j \in 1..Len(expr.expressions) :
                    expr.expressions[j].node \notin {"ColumnDef", "Constraint"}
              THEN /\ RaiseError("Invalid table definition: only columns and constraints allowed")
                   /\ UNCHANGED <<primary_key, table_args, c, k>>
              ELSE /\ primary_key' = FreshList(primary_key)
                   /\ table_args' = FreshList(table_args)
                   /\ c' = 1 /\ k' = 1
                   /\ pc' = "constraints" /\ err' = err
    /\ UNCHANGED <<expressions, i, t, table_indexes, output, writes, run, how, first>>

\* lines 138-174, one iteration
ConstraintStep ==
    /\ pc = "constraints"
    /\ c <= Len(Constraints(Tables(expressions)[t]))
    /\ LET r == ConstraintResult(Constraints(Tables(expressions)[t])[c],
                                 primary_key, table_args)
       IN  IF r.err # ""
           THEN RaiseError(r.err) /\ UNCHANGED <<primary_key, table_args, c>>
           ELSE /\ primary_key' = r.primary_key
                /\ table_args' = r.table_args
                /\ c' = c + 1
                /\ UNCHANGED <<pc, err>>
    /\ UNCHANGED <<expressions, i, t, k, table_indexes, lines, output, writes,
                   run, how, first>>

\* lines 176-183
TableArgs ==
    /\ pc = "constraints"
    /\ c > Len(Constraints(Tables(expressions)[t]))
    /\ table_args' = table_args \o
                     TableIndexesGet(table_indexes, Tables(expressions)[t].name)
    /\ lines' = lines \o TableArgsLines(table_args')
    /\ pc' = "columns"
    /\ UNCHANGED <<expressions, err, i, t, c, k, table_indexes, primary_key,
                   output, writes, run, how, first>>

\* lines 185-208, one iteration
ColumnStep ==
    /\ pc = "columns"
    /\ k <= Len(Columns(Tables(expressions)[t]))
    /\ LET r == ColumnResult(Columns(Tables(expressions)[t])[k], primary_key)
       IN  IF r.err # ""
           THEN RaiseError(r.err) /\ UNCHANGED <<lines, k>>
           ELSE /\ lines' = Append(lines, r.line)
                /\ k' = k + 1
                /\ UNCHANGED <<pc, err>>
    /\ UNCHANGED <<expressions, i, t, c, table_indexes, primary_key, table_args,
                   output, writes, run, how, first>>

\* lines 210-211
TableEnd ==
    /\ pc = "columns"
    /\ k > Len(Columns(Tables(expressions)[t]))
    /\ lines' = lines \o <<"", "">>
    /\ t' = t + 1
    /\ pc' = "tables"
    /\ UNCHANGED <<expressions, err, i, c, k, table_indexes, primary_key,
                   table_args, output, writes, run, how, first>>

\* variant of LoopsFinished that lets the loop over the tables end early
LoopLeftEarly == pc = "tables"

\* line 213 is reached when the loop over the tables has ended
LoopsFinished == pc = "tables" /\ t > Len(Tables(expressions))

\* line 213
Write ==
    /\ LoopsFinished
    /\ output' = [written |-> TRUE, text |-> header \o Join("\n", lines)]
    /\ writes' = writes + 1
    /\ pc' = "done"
    /\ UNCHANGED <<expressions, err, i, t, c, k, table_indexes, primary_key,
                   table_args, lines, run, how, first>>

(***************************************************************************)
(* The command is run a second time (lines 216-219) on a rearranged input  *)
(* and a fresh output path: one reserved-prefix table statement dropped,   *)
(* or one index statement moved to another position without passing        *)
(* another index statement.                                                *)
(***************************************************************************)
Remove(s, p) == SubSeq(s, 1, p - 1) \o SubSeq(s, p + 1, Len(s))
Insert(s, q, e) == SubSeq(s, 1, q - 1) \o <<e>> \o SubSeq(s, q, Len(s))
Move(s, p, q) == Insert(Remove(s, p), q, s[p])

Rearranged(exprs) ==
    { [how |-> "drop_reserved", exprs |-> Remove(exprs, p)]
      : p \in { p \in 1..Len(exprs) :
                  exprs[p].kind = "TABLE" /\ StartsWith(exprs[p].name, ReservedPrefix) } }
    \cup
    { [how |-> "move_index", exprs |-> Move(exprs, pq[1], pq[2])]
      : pq \in { pq \in (1..Len(exprs)) \X (1..Len(exprs)) :
                   /\ exprs[pq[1]].kind = "INDEX" /\ pq[1] # pq[2]
                   /\ Indexes(Move(exprs, pq[1], pq[2])) = Indexes(exprs) } }

Reinvoke ==
    /\ pc \in {"done", "error"}
    /\ run = 1
    /\ \E v \in Rearranged(expressions) :
          /\ expressions' = v.exprs
          /\ how' = v.how
    /\ first' = [err |-> err, output |-> output]
    /\ run' = 2
    /\ pc' = "start" /\ err' = ""
    /\ i' = 1 /\ t' = 1 /\ c' = 1 /\ k' = 1
    /\ table_indexes' = EmptyDict
    /\ primary_key' = <<>> /\ table_args' = <<>>
    /\ lines' = <<>>
    /\ output' = NotWritten /\ writes' = 0

Next ==
    \/ Validate
    \/ IndexStep
    \/ SkipTable
    \/ TableBegin
    \/ ConstraintStep
    \/ TableArgs
    \/ ColumnStep
    \/ TableEnd
    \/ Write
    \/ Reinvoke

Spec == Init /\ [][Next]_vars

(***************************************************************************)
(* Properties.  The definitions below read the input itself, not the       *)
(* translator's working state.                                             *)
(***************************************************************************)
Terminal == pc \in {"done", "error"}
InTable == pc \in {"constraints", "columns"}
CurTable == Tables(expressions)[t]

HasReservedPrefix(name) == StartsWith(name, ReservedPrefix)
Retained(exprs) ==
    SelectSeq(exprs, LAMBDA e : e.kind = "TABLE" /\ ~HasReservedPrefix(e.name))

IsPrimaryKeyConstraint(n) ==
    n.node = "Constraint" /\ Len(n.expressions) = 1 /\ n.expressions[1].type = "PrimaryKey"
PkCount(tbl) ==
    Cardinality({ j \in 1..Len(tbl.expressions) : IsPrimaryKeyConstraint(tbl.expressions[j]) })
Range(f) == { f[j] : j \in DOMAIN f }
PkColumns(tbl) ==
    UNION { Range(n.expressions[1].cols) :
            n \in { x \in Range(tbl.expressions) : IsPrimaryKeyConstraint(x) } }

\* what the translator must reject in a retained table (primary-key counting aside)
GoodTypeArgs(kind) ==
    CASE kind.this = "VARCHAR" ->
            Len(kind.expressions) = 1 /\ IsDigit(kind.expressions[1])
      [] kind.this = "DECIMAL" ->
            \/ kind.expressions = <<>>
            \/ Len(kind.expressions) = 2 /\ IsDigit(kind.expressions[1])
                                         /\ IsDigit(kind.expressions[2])
      [] kind.this \in {"TEXT", "SMALLINT", "BIGINT", "INT", "DATETIME"} ->
            kind.expressions = <<>>
      [] OTHER -> FALSE

SubNodeDefect(n) ==
    CASE n.node = "ColumnDef" ->
            \/ ~GoodTypeArgs(n.kind)
            \/ \E cc \in Range(n.constraints) : cc # "NotNull"
      [] n.node = "Constraint" ->
            \/ Len(n.expressions) # 1
            \/ n.expressions[1].type \notin {"PrimaryKey", "Unique", "Check", "ForeignKey"}
            \/ /\ n.expressions[1].type = "ForeignKey"
               /\ \E o \in Range(n.expressions[1].options) : o # "ON DELETE CASCADE"
      [] OTHER -> TRUE

InputDefect(exprs) ==
    \/ \E e \in Range(exprs) : e.kind \notin {"TABLE", "INDEX"}
    \/ \E e \in Range(Retained(exprs)) : \E n \in Range(e.expressions) : SubNodeDefect(n)

\* C1: the output is written at most once, only by a run that ends without
\* error and after the loop over the tables has passed every table, and then
\* it is the preamble followed by the collected lines; a run that raises, or
\* whose input holds an unsupported statement or a defect in a retained
\* table, leaves the output file untouched.
C1_AtomicOutput ==
    /\ writes <= 1
    /\ pc # "done" => output = NotWritten /\ writes = 0
    /\ pc = "error" => err # ""
    /\ InputDefect(expressions) => pc # "done"
    /\ pc = "done" =>
          /\ err = "" /\ writes = 1
          /\ t = Len(Tables(expressions)) + 1
          /\ output = [written |-> TRUE, text |-> header \o Join("\n", lines)]

\* an error raised in a second retained table, after the first table's block
\* was collected in memory
C1_Witness ==
    /\ pc = "error" /\ t > 1 /\ lines # <<>> /\ output = NotWritten
    /\ ~HasReservedPrefix(Tables(expressions)[1].name)

ExpectedClassLine(name) ==
    CASE name = users -> "class Users(Base):"
      [] name = user_roles -> "class UserRoles(Base):"
      [] name = events -> "class Events(Base):"
      [] name = sqlite_seq -> "class SqliteSeq(Base):"
      [] name = sqlite -> "class Sqlite(Base):"
ExpectedTableLine(name) ==
    CASE name = users -> "    __tablename__ = \"users\""
      [] name = user_roles -> "    __tablename__ = \"user_roles\""
      [] name = events -> "    __tablename__ = \"events\""
      [] name = sqlite_seq -> "    __tablename__ = \"sqlite_seq\""
      [] name = sqlite -> "    __tablename__ = \"sqlite\""
AllNames == {users, user_roles, events, sqlite_seq, sqlite}

\* C2: a successful run's lines hold one class block head and one table-name
\* binding per table statement without the reserved prefix, in the order of
\* the table statements, and none for any other statement.
C2_OneBlockPerTable ==
    pc = "done" =>
        /\ SelectSeq(lines, LAMBDA l : l \in { ExpectedClassLine(n) : n \in AllNames })
             = [j \in 1..Len(Retained(expressions)) |->
                    ExpectedClassLine(Retained(expressions)[j].name)]
        /\ SelectSeq(lines, LAMBDA l : l \in { ExpectedTableLine(n) : n \in AllNames })
             = [j \in 1..Len(Retained(expressions)) |->
                    ExpectedTableLine(Retained(expressions)[j].name)]

\* two retained tables with an index statement between them
C2_Witness ==
    /\ pc = "done" /\ Len(expressions) = 3
    /\ expressions[1].kind = "TABLE" /\ expressions[2].kind = "INDEX"
    /\ expressions[3].kind = "TABLE"
    /\ Len(Retained(expressions)) = 2
    /\ expressions[1].name # expressions[3].name

\* C3: a run on the input with one reserved-prefix table statement dropped
\* ends as the run on the full input did: the same error or none, and the
\* same output.
C3_ReservedTableIgnored ==
    (run = 2 /\ how = "drop_reserved" /\ Terminal) =>
        /\ err = first.err
        /\ output = first.output

\* both runs succeeded and wrote a class block, the first over a reserved
\* table whose contents would be fatal in an ordinary table
C3_Witness ==
    /\ run = 2 /\ how = "drop_reserved" /\ pc = "done"
    /\ first.output.written /\ lines # <<>>

\* C4: a run on the input with one index statement moved ends as the run on
\* the original input did; and when a table's declarations are complete they
\* are one per constraint followed by exactly the indexes that name the
\* table, in statement order.
C4_IndexOrderIndependent ==
    /\ (run = 2 /\ how = "move_index" /\ Terminal) =>
          /\ err = first.err
          /\ output = first.output
    /\ pc = "columns" =>
          LET own == SelectSeq(Indexes(expressions),
                               LAMBDA e : e.table = CurTable.name)
              n == Len(Constraints(CurTable))
          IN  /\ Len(table_args) = n + Len(own)
              /\ \A j \in 1..Len(own) : table_args[n + j] = IndexDecl(own[j])

\* the index statement now precedes the table it names, and the table's
\* block holds the index after a structural constraint
C4_Witness ==
    /\ run = 2 /\ how = "move_index" /\ pc = "done" /\ first.output.written
    /\ Len(expressions) >= 2
    /\ expressions[1].kind = "INDEX" /\ expressions[2].kind = "TABLE"
    /\ expressions[1].table = expressions[2].name
    /\ \E j \in 1..(Len(lines) - 1) :
          /\ lines[j] = "        PrimaryKeyConstraint(\"id\", name=\"pk_users\"),"
          /\ lines[j + 1] = "        Index(\"ix_users_name\", \"name\", unique=True),"

LastColumn == Columns(CurTable)[k - 1]
LastLine == lines[Len(lines)]
HasNotNull(col) == \E cc \in Range(col.constraints) : cc = "NotNull"

\* C5: the field just emitted for a column carries " | None" exactly when
\* the column has no NOT NULL constraint and is not named by a PRIMARY_KEY
\* constraint of its table.
C5_OptionalMarker ==
    (pc = "columns" /\ k > 1) =>
        LastLine = FieldLine(LastColumn.name, MapType(LastColumn.kind).python,
                             IF ~HasNotNull(LastColumn) /\
                                LastColumn.name \notin PkColumns(CurTable)
                             THEN " | None" ELSE "",
                             MapType(LastColumn.kind).alchemy)

\* a nullable primary-key member, emitted without the marker
C5_Witness ==
    /\ pc = "columns" /\ k > 1
    /\ ~HasNotNull(LastColumn)
    /\ LastColumn.name \in PkColumns(CurTable)
    /\ LastLine = "    id: Mapped[int]"

\* C6: a run never succeeds over a retained table with two or more
\* PRIMARY_KEY constraints, and the multiple-primary-keys error is raised
\* only in a table that has two or more.
C6_MultiplePrimaryKeys ==
    /\ pc = "done" => \A e \in Range(Retained(expressions)) : PkCount(e) <= 1
    /\ err = "Multiple primary keys found" => PkCount(CurTable) >= 2

IsDecimal(col) == col.kind.this = "DECIMAL"
DecimalArgs(col) == col.kind.expressions
OptionalOf(col, tbl) ==
    IF ~HasNotNull(col) /\ col.name \notin PkColumns(tbl) THEN " | None" ELSE ""

LastConstraint == Constraints(CurTable)[c - 1]
IsForeignKey(n) == Len(n.expressions) = 1 /\ n.expressions[1].type = "ForeignKey"
RECURSIVE Modifiers(_)
Modifiers(n) == IF n = 0 THEN "" ELSE ", ondelete=\"CASCADE\"" \o Modifiers(n - 1)

\* C8: a FOREIGN_KEY constraint passes only when every reference option is
\* "ON DELETE CASCADE"; its declaration is then the one of the same
\* constraint without options, with the cascade modifier added once per
\* option (none for an empty list), and it is the only declaration added;
\* the unknown-option error is raised only for a foreign key with another
\* option.
C8_ForeignKeyOptions ==
    /\ (pc = "constraints" /\ c > 1 /\ IsForeignKey(LastConstraint)) =>
          LET fk == LastConstraint.expressions[1]
          IN  /\ \A o \in Range(fk.options) : o = "ON DELETE CASCADE"
              /\ Len(table_args) = c - 1
              /\ table_args[c - 1] =
                    ForeignKeyDecl(fk.cols, fk.ref_table, fk.ref_cols,
                                   LastConstraint.this, Modifiers(Len(fk.options)))
    /\ (pc = "error" /\ \E o \in RefOptions : err = "Unknown option " \o o) =>
          LET n == Constraints(CurTable)[c]
          IN  /\ IsForeignKey(n)
              /\ \E o \in Range(n.expressions[1].options) : o # "ON DELETE CASCADE"

\* a cascading foreign key, declared after the table's primary key
C8_Witness ==
    /\ pc = "constraints" /\ c = 3 /\ IsForeignKey(LastConstraint)
    /\ table_args = << "PrimaryKeyConstraint(\"id\", name=\"pk\")",
                       "ForeignKeyConstraint([\"id\"], [\"users.id\"], name=\"fk\", ondelete=\"CASCADE\")" >>

InlineLine(args) == "    __table_args__ = (" \o Join(", ", args) \o ",)"

\* C9: right after a table's declarations are rendered, they are one inline
\* line exactly when that line has at most 100 characters, a multi-line
\* block when it would have more, and nothing when there is no declaration.
C9_LineLength ==
    (pc = "columns" /\ k = 1) =>
        IF table_args = <<>>
        THEN LastLine = "    __tablename__ = " \o Quote(Str(CurTable.name))
        ELSE IF Len(InlineLine(table_args)) <= MAX_LINE_LENGTH
        THEN LastLine = InlineLine(table_args)
        ELSE /\ LastLine = "    )"
             /\ lines[Len(lines) - Len(table_args) - 1] = "    __table_args__ = ("

OwnDecls(tbl) ==
    { ConstraintResult(n, <<>>, <<>>).table_args[1] :
        n \in { x \in Range(Constraints(tbl)) :
                  ConstraintResult(x, <<>>, <<>>).err = "" } }
    \cup
    { IndexDecl(e) : e \in { x \in Range(Indexes(expressions)) : x.table = tbl.name } }

\* C10: a table's emission starts with no primary-key column and no
\* declaration; while a table is emitted the primary-key columns and the
\* declarations held are those of this table's own constraints and indexes;
\* and the multiple-primary-keys error is raised only in a table that
\* itself has two or more PRIMARY_KEY constraints.
C10_PerTableScope ==
    /\ (pc = "constraints" /\ c = 1) => primary_key = <<>> /\ table_args = <<>>
    /\ InTable =>
          /\ Range(primary_key) \subseteq PkColumns(CurTable)
          /\ Range(table_args) \subseteq OwnDecls(CurTable)
    /\ (pc = "error" /\ err = "Multiple primary keys found") => PkCount(CurTable) >= 2

\* a later table's nullable column that shares its name with the primary
\* key of an earlier table, emitted with the marker, the later table having
\* a primary key of its own
C10_Witness ==
    /\ pc = "columns" /\ t > 1 /\ k > 1
    /\ ~HasReservedPrefix(Tables(expressions)[1].name)
    /\ LastColumn.name \in PkColumns(Tables(expressions)[1])
    /\ PkCount(CurTable) = 1
    /\ LastLine = "    id: Mapped[int | None]"
====
